---- MODULE Spec2Model ----
(***************************************************************************)
(* Model of ec2monitor_exporter.py: the poller threads (Ec2Conn), the      *)
(* collector (Ec2Collector) that drains their queues at scrape time, and   *)
(* main() which builds the collector, waits for the threads and destroys   *)
(* the collector on the way out.                                           *)
(***************************************************************************)
EXTENDS Integers, Sequences, FiniteSets, TLC

(* ------------------------------ bounds -------------------------------- *)

\* Instances returned by one get_all_reservations() call.
MaxInst == 1
\* Facts one worker enqueues over the whole run.
MaxPuts == 2
\* Scrapes (collect() passes) served over the whole run.
MaxScrapes == 2

(* ------------------------- program constants -------------------------- *)

\* self.join(3) in Ec2Conn.stop
JoinTimeout == 3

None == "None"

(* --------------------------- configuration ---------------------------- *)

\* The (zone, region) pairs of the 'access' block, in the order the two
\* nested loops of Ec2Collector.__init__ visit them.
TwoRegions == << <<"europe", "eu-west-1">>, <<"europe", "eu-west-2">> >>
OneRegion == << <<"europe", "eu-west-1">> >>

\* The configurations the exporter is started with: a sequence of provider
\* records in the order conf.keys() yields them (a dict: arbitrary order,
\* unique provider names).
Confs ==
    { << [cloud |-> "aws", has_access |-> TRUE, access |-> TwoRegions] >>,
      << [cloud |-> "aws", has_access |-> TRUE, access |-> TwoRegions],
         [cloud |-> "gce", has_access |-> TRUE, access |-> OneRegion] >>,
      << [cloud |-> "gce", has_access |-> TRUE, access |-> OneRegion],
         [cloud |-> "aws", has_access |-> TRUE, access |-> TwoRegions] >>,
      << [cloud |-> "aws", has_access |-> TRUE, access |-> OneRegion],
         [cloud |-> "gce", has_access |-> FALSE, access |-> << >>] >>,
      << [cloud |-> "aws", has_access |-> FALSE, access |-> << >>] >> }

\* A filter value of the configuration: absent, one string or a list of
\* strings.
Absent == [kind |-> "absent", values |-> << >>]
Str(v) == [kind |-> "str", values |-> <<v>>]
List(vs) == [kind |-> "list", values |-> vs]

\* The 'filters' block of the aws provider: status "running", no tag filter.
\* tags is a set of <<tag name, filter value>> pairs with unique names.
FilterConf == [status |-> Str("running"), tags |-> {}]

Workers == 1 .. 2

(* ----------------------------- instances ------------------------------ *)

\* What the provider can report for one instance.  tags is a set of
\* <<name, value>> pairs with unique names (a dict).
RunningProd ==
    [state |-> "running", instance_type |-> "t2.micro", image_id |-> "ami-1",
     tags |-> {<<"env", "prod">>}]
StoppedProd ==
    [state |-> "stopped", instance_type |-> "t2.micro", image_id |-> "ami-1",
     tags |-> {<<"env", "prod">>}]
RunningUnnamed ==
    [state |-> "running", instance_type |-> "t2.micro", image_id |-> None,
     tags |-> {<<"env", "prod">>, <<"Name", None>>}]

RunningEnvUpper ==
    [state |-> "running", instance_type |-> "t2.micro", image_id |-> "ami-1",
     tags |-> {<<"Env", "prod">>}]
RunningEnvNull ==
    [state |-> "running", instance_type |-> "t2.micro", image_id |-> "ami-1",
     tags |-> {<<"env", None>>}]
RunningEnvRunning ==
    [state |-> "running", instance_type |-> "t2.micro", image_id |-> "ami-1",
     tags |-> {<<"env", "running">>}]
RunningTeamA ==
    [state |-> "running", instance_type |-> "t2.micro", image_id |-> "ami-1",
     tags |-> {<<"team", "a">>}]
PendingTeamC ==
    [state |-> "pending", instance_type |-> "t2.micro", image_id |-> "ami-1",
     tags |-> {<<"team", "c">>}]
RunningZoneTag ==
    [state |-> "running", instance_type |-> "t2.micro", image_id |-> "ami-1",
     tags |-> {<<"env", "prod">>, <<"zone", "dmz">>}]

\* 'filters' blocks an operator can write.
FilterConfs ==
    { FilterConf,
      [status |-> Str("run"), tags |-> {}],
      [status |-> Absent, tags |-> {<<"env", Str("prod")>>}],
      [status |-> Absent, tags |-> {<<"env", Str("run")>>}],
      [status |-> Absent, tags |-> {<<"Env", Str("prod")>>}],
      [status |-> List(<<"running", "pending">>),
       tags |-> {<<"team", List(<<"a", "b">>)>>}] }

RECURSIVE SeqsUpTo(_, _)
SeqsUpTo(S, n) ==
    IF n = 0 THEN { << >> }
    ELSE LET shorter == SeqsUpTo(S, n - 1)
         IN  shorter \cup { Append(s, x) : s \in shorter, x \in S }

\* The instance lists one fetch can return from an account holding the
\* instances S.
InstanceLists(S) == SeqsUpTo(S, MaxInst)

(* --------------------------- pure helpers ----------------------------- *)

Range(s) == { s[i] : i \in DOMAIN s }

\* str.lower() on the tag names that occur.
Lower(s) ==
    CASE s = "Env" -> "env"
      [] s = "Name" -> "name"
      [] OTHER -> s

\* The characters of the strings that occur as statuses, tag values and
\* filter values (none holds a regular-expression metacharacter).
Chars(s) ==
    CASE s = "running" -> <<"r", "u", "n", "n", "i", "n", "g">>
      [] s = "run" -> <<"r", "u", "n">>
      [] s = "stopped" -> <<"s", "t", "o", "p", "p", "e", "d">>
      [] s = "pending" -> <<"p", "e", "n", "d", "i", "n", "g">>
      [] s = "prod" -> <<"p", "r", "o", "d">>
      [] s = "dev" -> <<"d", "e", "v">>
      [] s = "dmz" -> <<"d", "m", "z">>
      [] OTHER -> <<s>>

\* re.compile("^"+value+"$") for one string, re.compile("^("+"|".join(value)+")$")
\* for a list, re.compile(".*") for an absent status: the alternatives of
\* the compiled pattern, each between "^" and "$", or "any".
Compile(v) ==
    IF v.kind = "absent" THEN [any |-> TRUE, alts |-> {}, dollar |-> FALSE]
    ELSE [any |-> FALSE, alts |-> { Chars(a) : a \in Range(v.values) },
          dollar |-> TRUE]

\* Whether the characters cs start with the characters a.
StartsWith(cs, a) ==
    /\ Len(a) <= Len(cs)
    /\ \A i \in DOMAIN a : cs[i] = a[i]

\* What "$" accepts after the match: the end of the string, or a newline
\* that ends the string.
AtDollar(rest) == rest = << >> \/ rest = <<"\n">>

\* pattern.match(s) for a string s: the match starts at the first character;
\* an alternative matches when s starts with it and, for a pattern closed
\* by "$", what follows is accepted by "$".
Match(p, s) ==
    \/ p.any
    \/ \E a \in p.alts :
          LET cs == Chars(s)
          IN  /\ StartsWith(cs, a)
              /\ p.dollar => AtDollar(SubSeq(cs, Len(a) + 1, Len(cs)))

\* self._status_filter, lines 80-85
StatusFilter(fc) == Compile(fc.status)

\* self._tag_filters, lines 72-79: keyed by the lower-cased tag name
TagFilters(fc) == { <<Lower(t[1]), Compile(t[2])>> : t \in fc.tags }

Keys(d) == { kv[1] : kv \in d }
Lookup(d, k) == (CHOOSE kv \in d : kv[1] = k)[2]

\* Ec2Conn._check_tags returning True: every filter finds its (lower-cased)
\* name among the instance's tag names and matches the value, a string.
CheckTags(tag_filters, instance_tags) ==
    \A f \in tag_filters :
        /\ f[1] \in Keys(instance_tags)
        /\ Lookup(instance_tags, f[1]) # None
        /\ Match(f[2], Lookup(instance_tags, f[1]))

\* The label dict a worker builds for an instance, lines 134-138: the four
\* fixed labels, overwritten by the instance tags, None values dropped.
BuildTags(zone, region, instance) ==
    LET fixed == { <<"zone", zone>>, <<"region", region>>,
                   <<"machine", instance.instance_type>>,
                   <<"ami", instance.image_id>> }
        merged == { kv \in fixed : kv[1] \notin Keys(instance.tags) }
                      \cup instance.tags
    IN  { kv \in merged : kv[2] # None }

\* Label names in the order sorted() puts them.
NameOrder ==
    <<"Env", "Name", "ami", "env", "machine", "region", "team", "zone">>

RECURSIVE SortedFrom(_, _)
SortedFrom(names, i) ==
    IF i > Len(NameOrder) THEN << >>
    ELSE IF NameOrder[i] \in names
         THEN <<NameOrder[i]>> \o SortedFrom(names, i + 1)
         ELSE SortedFrom(names, i + 1)

\* sorted([x[0] for x in frozen_tags]), line 237
SortedLabels(frozen_tags) == SortedFrom(Keys(frozen_tags), 1)

\* [x[1] for x in sorted(frozen_tags, key=lambda y: y[0])], line 239
LabelValues(frozen_tags) ==
    LET names == SortedLabels(frozen_tags)
    IN  [i \in DOMAIN names |-> Lookup(frozen_tags, names[i])]

\* A LifoQueue in place of the Queue: the item joins the head.
put_nowait_lifo(q, item) == <<item>> \o q

\* Queue.Queue.put_nowait, line 139: the item joins the tail.
put_nowait(q, item) == Append(q, item)

\* Queue.Queue.get_nowait, line 102, on a queue that is not empty: the
\* oldest item, and the queue without it.
get_nowait(q) == [item |-> Head(q), rest |-> Tail(q)]

(* ------------------------------- state -------------------------------- *)

VARIABLES
    account,       \* the instances the provider account holds
    filters,       \* the 'filters' block of the aws provider
    conf,          \* the loaded configuration, in conf.keys() order
    mainPc,        \* where main() is
    ctor,          \* Ec2Collector.__init__: <<provider index, pair index>>
    exit_code,     \* exit_code of the __main__ block
    conns,         \* Ec2Collector._conn
    pc,            \* per worker: where Ec2Conn.run is
    canceled,      \* per worker: Ec2Conn._canceled
    place,         \* per worker: <<_zone, _region>>
    queue,         \* per worker: Ec2Conn._data_queue
    instances,     \* per worker: the rest of the instance list of this cycle
    nputs,         \* per worker: facts enqueued so far
    enqLog,        \* per worker: every fact enqueued, in order
    after,         \* per worker: <<facts enqueued, fetches started>> with the
                   \* flag already set (each counted up to MaxAfter)
    deqLog,        \* per worker: every fact get() returned, in order
    colPc,         \* where the collect() generator is
    colIter,       \* collect(): the workers still to drain in this pass
    alive_metric,  \* samples of Ec2Collector._alive_metric
    metrics,       \* Ec2Collector._metrics: frozen_tags -> samples of the family
    emitted,       \* families the current pass has yielded, in order
    drained,       \* facts the current pass has drained, in order
    nscrapes,      \* collect() passes started so far
    destroyIter,   \* destroy(): the workers still to visit in the current loop
    joinWaited,    \* time the pending join(3) has waited
    scr            \* per scrape thread: where its own collect() pass is

workerVars == <<pc, canceled, place, queue, instances, nputs, enqLog, after>>
collectVars == <<colPc, colIter, alive_metric, metrics, emitted, drained,
                 nscrapes, deqLog, scr>>
mainVars == <<account, filters, conf, mainPc, ctor, exit_code, conns, destroyIter, joinWaited>>
vars == <<workerVars, collectVars, mainVars>>

\* socket.getfqdn()
Fqdn == "host"

\* threading.Thread.is_alive(): started and run() not yet left
IsAlive(w) == pc[w] \notin {"new", "stopped", "failed"}

\* The process is gone once os._exit() ran.
ProcessUp == mainPc # "exited"

\* The threads of the HTTP server that run collect() side by side.
ScrapeThreads == 1 .. 2

InitBase(held, confs, filter_confs) ==
    /\ account = held
    /\ filters \in filter_confs
    /\ conf \in confs
    /\ after = [w \in Workers |-> <<0, 0>>]
    /\ scr = [t \in ScrapeThreads |-> [pc |-> "idle", iter |-> << >>, fact |-> << >>]]
    /\ mainPc = "ctor"
    /\ ctor = <<1, 0>>
    /\ exit_code = "2"
    /\ conns = << >>
    /\ pc = [w \in Workers |-> "new"]
    /\ canceled = [w \in Workers |-> FALSE]
    /\ place = [w \in Workers |-> <<None, None>>]
    /\ queue = [w \in Workers |-> << >>]
    /\ instances = [w \in Workers |-> << >>]
    /\ nputs = [w \in Workers |-> 0]
    /\ enqLog = [w \in Workers |-> << >>]
    /\ deqLog = [w \in Workers |-> << >>]
    /\ colPc = "idle"
    /\ colIter = << >>
    /\ alive_metric = << >>
    /\ metrics = << >>
    /\ emitted = << >>
    /\ drained = << >>
    /\ nscrapes = 0
    /\ destroyIter = << >>
    /\ joinWaited = 0

InitWith(held, confs) == InitBase(held, confs, {FilterConf})

Init == InitWith({RunningProd, StoppedProd}, Confs)

(* ----------------------------- Ec2Conn.run ---------------------------- *)

\* boto.ec2.connect_to_region(...) returns a connection, lines 119-122.
Connect(w) ==
    /\ ProcessUp
    /\ pc[w] = "connect"
    /\ pc' = [pc EXCEPT ![w] = "while"]
    /\ UNCHANGED <<canceled, place, queue, instances, nputs, enqLog, after>>
    /\ UNCHANGED <<collectVars, mainVars>>

\* The error of one worker brings every started worker down.
ProviderErrorStopsAll(w) ==
    /\ ProcessUp
    /\ pc[w] \in {"connect", "fetch"}
    /\ pc' = [v \in Workers |-> IF pc[v] = "new" THEN "new" ELSE "failed"]
    /\ UNCHANGED <<canceled, place, queue, instances, nputs, enqLog, after>>
    /\ UNCHANGED <<collectVars, mainVars>>

\* A provider call raises (connect_to_region or get_all_reservations): the
\* exception is none of those run() catches, the finally clause closes the
\* connection and the thread ends with the exception.
ProviderError(w) ==
    /\ ProcessUp
    /\ pc[w] \in {"connect", "fetch"}
    /\ pc' = [pc EXCEPT ![w] = "failed"]
    /\ UNCHANGED <<canceled, place, queue, instances, nputs, enqLog, after>>
    /\ UNCHANGED <<collectVars, mainVars>>

\* The worker thread reads an attribute nothing ever sets.
CanceledNeverSeen(w) == FALSE

\* The worker thread's read of self._canceled, lines 123, 127, 140 and 173.
Canceled(w) == canceled[w]

\* Counting one more event that happened with the flag already set.
MaxAfter == 2
Bump(n) == IF n < MaxAfter THEN n + 1 ELSE n

\* while not self._canceled, line 123: leave the loop (and run()) when
\* canceled, else go on to line 124.
WhileCheck(w) ==
    /\ ProcessUp
    /\ pc[w] = "while"
    /\ pc' = [pc EXCEPT ![w] = IF Canceled(w) THEN "stopped" ELSE "call"]
    /\ UNCHANGED <<canceled, place, queue, instances, nputs, enqLog, after>>
    /\ UNCHANGED <<collectVars, mainVars>>

\* conn.get_all_reservations() is called, line 124: the fetch is in flight.
FetchCall(w) ==
    /\ ProcessUp
    /\ pc[w] = "call"
    /\ pc' = [pc EXCEPT ![w] = "fetch"]
    /\ after' = [after EXCEPT ![w] =
                    IF canceled[w] THEN <<@[1], Bump(@[2])>> ELSE @]
    /\ UNCHANGED <<canceled, place, queue, instances, nputs, enqLog>>
    /\ UNCHANGED <<collectVars, mainVars>>

\* Whether both filters accept an instance, lines 129-133.
Keep(instance) ==
    /\ Match(StatusFilter(filters), instance.state)
    /\ CheckTags(TagFilters(filters), instance.tags)

\* Whether the filters can raise on an instance: the status filter accepts
\* it and _check_tags hands a tag value that is None to filter.match, line
\* 162 (TypeError).
TagError(instance) ==
    /\ Match(StatusFilter(filters), instance.state)
    /\ \E f \in TagFilters(filters) :
           /\ f[1] \in Keys(instance.tags)
           /\ Lookup(instance.tags, f[1]) = None

\* Whether the filters can skip an instance, lines 129-133: the status
\* does not match, or _check_tags returns False at a filter whose name the
\* instance lacks or whose pattern does not match the value.
Skip(instance) ==
    \/ ~Match(StatusFilter(filters), instance.state)
    \/ \E f \in TagFilters(filters) :
          \/ f[1] \notin Keys(instance.tags)
          \/ /\ Lookup(instance.tags, f[1]) # None
             /\ ~Match(f[2], Lookup(instance.tags, f[1]))

\* What the loop body can do with an instance.  _check_tags walks a dict,
\* so with several tag filters the first one to fail is any of them.
Outcomes(instance) ==
    (IF Keep(instance) THEN {"put"} ELSE {})
        \cup (IF Skip(instance) THEN {"skip"} ELSE {})
        \cup (IF TagError(instance) THEN {"raise"} ELSE {})

\* get_all_reservations() returns a list of the instances lists, and
\* instances is the flattened list, line 125.
FetchReturnFrom(w, lists) ==
    /\ ProcessUp
    /\ pc[w] = "fetch"
    /\ \E l \in lists :
           /\ nputs[w] + Len(SelectSeq(l, Keep)) <= MaxPuts
           /\ instances' = [instances EXCEPT ![w] = l]
    /\ pc' = [pc EXCEPT ![w] = "for"]
    /\ UNCHANGED <<canceled, place, queue, nputs, enqLog, after>>
    /\ UNCHANGED <<collectVars, mainVars>>

\* get_all_reservations() returns at most MaxInst instances.
FetchReturn(w) == FetchReturnFrom(w, InstanceLists(account))

\* A for statement that looks at the flag only once the list is through.
ForCheckAtListEnd(w) ==
    /\ ProcessUp
    /\ pc[w] = "for"
    /\ pc' = [pc EXCEPT ![w] =
                 IF instances[w] # << >> THEN "body"
                 ELSE IF Canceled(w) THEN "stopped"
                 ELSE "sleep"]
    /\ UNCHANGED <<canceled, place, queue, instances, nputs, enqLog, after>>
    /\ UNCHANGED <<collectVars, mainVars>>

\* for instance in instances / if self._canceled: return, lines 126-128;
\* after the list, if self._canceled: return, else self._sleep(1), 140-142.
ForCheck(w) ==
    /\ ProcessUp
    /\ pc[w] = "for"
    /\ pc' = [pc EXCEPT ![w] =
                 IF Canceled(w) THEN "stopped"
                 ELSE IF instances[w] = << >> THEN "sleep"
                 ELSE "body"]
    /\ UNCHANGED <<canceled, place, queue, instances, nputs, enqLog, after>>
    /\ UNCHANGED <<collectVars, mainVars>>

\* The body of the for loop for one instance, lines 129-139: skip it when a
\* filter rejects it, else put (1, tags) on the queue; a TypeError of the
\* tag filter ends the thread like a provider error.
ForBody(w) ==
    /\ ProcessUp
    /\ pc[w] = "body"
    /\ LET instance == Head(instances[w])
           fact == <<1, BuildTags(place[w][1], place[w][2], instance)>>
       IN  \E outcome \in Outcomes(instance) :
             /\ IF outcome = "put"
                THEN /\ queue' = [queue EXCEPT ![w] = put_nowait(@, fact)]
                     /\ enqLog' = [enqLog EXCEPT ![w] = Append(@, fact)]
                     /\ nputs' = [nputs EXCEPT ![w] = @ + 1]
                     /\ after' = [after EXCEPT ![w] =
                                     IF canceled[w] THEN <<Bump(@[1]), @[2]>> ELSE @]
                ELSE UNCHANGED <<queue, enqLog, nputs, after>>
             /\ IF outcome = "raise"
                THEN /\ pc' = [pc EXCEPT ![w] = "failed"]
                     /\ UNCHANGED instances
                ELSE /\ pc' = [pc EXCEPT ![w] = "for"]
                     /\ instances' = [instances EXCEPT ![w] = Tail(@)]
    /\ UNCHANGED <<canceled, place>>
    /\ UNCHANGED <<collectVars, mainVars>>

\* A sleep that goes on for as long as the flag is set.
SleepWhileCanceled(w) ==
    /\ ProcessUp
    /\ pc[w] = "sleep"
    /\ ~canceled[w]
    /\ pc' = [pc EXCEPT ![w] = "while"]
    /\ UNCHANGED <<canceled, place, queue, instances, nputs, enqLog, after>>
    /\ UNCHANGED <<collectVars, mainVars>>

\* A sleep that lowers the flag when it returns.
SleepResets(w) ==
    /\ ProcessUp
    /\ pc[w] = "sleep"
    /\ pc' = [pc EXCEPT ![w] = "while"]
    /\ canceled' = [canceled EXCEPT ![w] = FALSE]
    /\ UNCHANGED <<place, queue, instances, nputs, enqLog, after>>
    /\ UNCHANGED <<collectVars, mainVars>>

\* Ec2Conn._sleep: returns when the flag is set or the second has passed;
\* back to the while test, line 123.
Sleep(w) ==
    /\ ProcessUp
    /\ pc[w] = "sleep"
    /\ pc' = [pc EXCEPT ![w] = "while"]
    /\ UNCHANGED <<canceled, place, queue, instances, nputs, enqLog, after>>
    /\ UNCHANGED <<collectVars, mainVars>>

WorkerStep(w) ==
    \/ Connect(w)
    \/ ProviderError(w)
    \/ WhileCheck(w)
    \/ FetchCall(w)
    \/ FetchReturn(w)
    \/ ForCheck(w)
    \/ ForBody(w)
    \/ Sleep(w)

(* ------------------------ Ec2Collector.collect ------------------------ *)

AliveFamily == [name |-> "ec2monitor_exporter_alive", key |-> {}]
InstancesFamily(frozen_tags) == [name |-> "ec2_number_instances", key |-> frozen_tags]

\* The HTTP server runs from start_http_server() until the process exits.
ServerUp == mainPc \in {"loop", "destroy_close", "destroy_stop", "joining", "destroyed"}

\* A scrape calls collect(): the liveness family gets a sample and is
\* yielded, lines 229-230.
CollectStart ==
    /\ ServerUp
    /\ colPc = "idle"
    /\ nscrapes < MaxScrapes
    /\ nscrapes' = nscrapes + 1
    /\ alive_metric' = Append(alive_metric, << <<Fqdn>>, 1 >>)
    /\ emitted' = <<AliveFamily>>
    /\ drained' = << >>
    /\ colPc' = "alive"
    /\ UNCHANGED <<colIter, metrics, deqLog, scr>>
    /\ UNCHANGED <<workerVars, mainVars>>

\* for conn in self._conn, line 231: the iteration is over the collection
\* self._conn names at this moment.
CollectFor ==
    /\ ProcessUp
    /\ colPc = "alive"
    /\ colIter' = conns
    /\ colPc' = IF conns = << >> THEN "idle" ELSE "drain"
    /\ UNCHANGED <<alive_metric, metrics, emitted, drained, nscrapes, deqLog, scr>>
    /\ UNCHANGED <<workerVars, mainVars>>

\* The samples of the family of frozen_tags after add_metric, lines 234-239:
\* the family is created empty when the key is new.
AddMetric(m, frozen_tags, val) ==
    LET old == IF frozen_tags \in DOMAIN m THEN m[frozen_tags] ELSE << >>
        new == Append(old, <<LabelValues(frozen_tags), val>>)
    IN  [k \in DOMAIN m \cup {frozen_tags} |->
            IF k = frozen_tags THEN new ELSE m[k]]

\* A drain that closes the worker whose queue it finds empty.
CollectGetCloses ==
    /\ ProcessUp
    /\ colPc = "drain"
    /\ LET w == Head(colIter)
       IN  IF queue[w] = << >>
           THEN /\ colIter' = Tail(colIter)
                /\ colPc' = IF Tail(colIter) = << >> THEN "idle" ELSE "drain"
                /\ canceled' = [canceled EXCEPT ![w] = TRUE]
                /\ UNCHANGED <<queue, metrics, emitted, drained, deqLog>>
           ELSE LET got == get_nowait(queue[w])
                    fact == got.item
                    frozen_tags == fact[2]
                IN  /\ queue' = [queue EXCEPT ![w] = got.rest]
                    /\ deqLog' = [deqLog EXCEPT ![w] = Append(@, fact)]
                    /\ metrics' = AddMetric(metrics, frozen_tags, fact[1])
                    /\ emitted' = Append(emitted, InstancesFamily(frozen_tags))
                    /\ drained' = Append(drained, fact)
                    /\ UNCHANGED <<colIter, colPc, canceled>>
    /\ UNCHANGED <<alive_metric, nscrapes, scr>>
    /\ UNCHANGED <<pc, place, instances, nputs, enqLog, after>>
    /\ UNCHANGED mainVars

\* get() written with the blocking Queue.get(): a turn waits for a fact.
CollectGetBlocking ==
    /\ ProcessUp
    /\ colPc = "drain"
    /\ LET w == Head(colIter)
           got == get_nowait(queue[w])
           fact == got.item
           frozen_tags == fact[2]
       IN  /\ queue[w] # << >>
           /\ queue' = [queue EXCEPT ![w] = got.rest]
           /\ deqLog' = [deqLog EXCEPT ![w] = Append(@, fact)]
           /\ metrics' = AddMetric(metrics, frozen_tags, fact[1])
           /\ emitted' = Append(emitted, InstancesFamily(frozen_tags))
           /\ drained' = Append(drained, fact)
           /\ UNCHANGED <<colIter, colPc>>
    /\ UNCHANGED <<alive_metric, nscrapes, scr>>
    /\ UNCHANGED <<pc, canceled, place, instances, nputs, enqLog, after>>
    /\ UNCHANGED mainVars

\* One turn of "for val, tags in conn.get()", lines 232-240, with
\* Ec2Conn.get, lines 98-104: get_nowait() either raises Queue.Empty, which
\* ends this worker's drain, or returns the oldest fact, which is added to
\* its family and the family is yielded.
CollectGet ==
    /\ ProcessUp
    /\ colPc = "drain"
    /\ LET w == Head(colIter)
       IN  IF queue[w] = << >>
           THEN /\ colIter' = Tail(colIter)
                /\ colPc' = IF Tail(colIter) = << >> THEN "idle" ELSE "drain"
                /\ UNCHANGED <<queue, metrics, emitted, drained, deqLog>>
           ELSE LET got == get_nowait(queue[w])
                    fact == got.item
                    frozen_tags == fact[2]
                IN  /\ queue' = [queue EXCEPT ![w] = got.rest]
                    /\ deqLog' = [deqLog EXCEPT ![w] = Append(@, fact)]
                    /\ metrics' = AddMetric(metrics, frozen_tags, fact[1])
                    /\ emitted' = Append(emitted, InstancesFamily(frozen_tags))
                    /\ drained' = Append(drained, fact)
                    /\ UNCHANGED <<colIter, colPc>>
    /\ UNCHANGED <<alive_metric, nscrapes, scr>>
    /\ UNCHANGED <<pc, canceled, place, instances, nputs, enqLog, after>>
    /\ UNCHANGED mainVars

(* ------------------- Ec2Collector.__init__ and main ------------------- *)

\* The next worker to be created: workers are numbered in creation order.
NextWorker == Len(conns) + 1

\* One turn of "for cloud in conf.keys()", lines 193-200 and 208-209: a
\* provider without 'access' or with an unknown name raises ExporterError,
\* which main() catches (collector is still None, so nothing is destroyed)
\* and turns into exit code 1; the aws provider goes on to its pairs.  After
\* the last provider the constructor returns and main() registers the
\* collector, starts the HTTP server and enters loop(), lines 278-281.
CtorCloud ==
    /\ mainPc = "ctor"
    /\ ctor[2] = 0
    /\ IF ctor[1] > Len(conf)
       THEN /\ mainPc' = "loop"
            /\ UNCHANGED <<ctor, exit_code>>
       ELSE LET cloud == conf[ctor[1]]
            IN  IF ~cloud.has_access \/ cloud.cloud # "aws"
                THEN /\ mainPc' = "error"
                     /\ exit_code' = "1"
                     /\ UNCHANGED ctor
                ELSE /\ ctor' = IF cloud.access = << >>
                                THEN <<ctor[1] + 1, 0>>
                                ELSE <<ctor[1], 1>>
                     /\ UNCHANGED <<mainPc, exit_code>>
    /\ UNCHANGED <<account, filters, conf, conns, destroyIter, joinWaited>>
    /\ UNCHANGED <<workerVars, collectVars>>

\* conn = Ec2Conn(zone, region, ...); conn.start(); self._conn.append(conn),
\* lines 201-207, for the next (zone, region) pair of the provider.
CtorStartConn ==
    /\ mainPc = "ctor"
    /\ ctor[2] > 0
    /\ LET cloud == conf[ctor[1]]
           w == NextWorker
       IN  /\ place' = [place EXCEPT ![w] = cloud.access[ctor[2]]]
           /\ pc' = [pc EXCEPT ![w] = "connect"]
           /\ conns' = Append(conns, w)
           /\ ctor' = IF ctor[2] = Len(cloud.access)
                      THEN <<ctor[1] + 1, 0>>
                      ELSE <<ctor[1], ctor[2] + 1>>
    /\ UNCHANGED <<canceled, queue, instances, nputs, enqLog, after>>
    /\ UNCHANGED <<account, filters, conf, mainPc, exit_code, destroyIter, joinWaited>>
    /\ UNCHANGED collectVars

\* Ec2Collector.is_alive, lines 211-215
CollectorIsAlive == \E i \in DOMAIN conns : IsAlive(conns[i])

\* Ec2Collector.loop, lines 217-222: once no worker thread is alive loop()
\* returns, main() returns None and its finally clause runs destroy().
LoopExit ==
    /\ mainPc = "loop"
    /\ ~CollectorIsAlive
    /\ mainPc' = "destroy_close"
    /\ destroyIter' = conns
    /\ exit_code' = None
    /\ UNCHANGED <<account, filters, conf, ctor, conns, joinWaited>>
    /\ UNCHANGED <<workerVars, collectVars>>

\* The operator interrupts the exporter while main() waits in loop():
\* KeyboardInterrupt, lines 282-284, return 0 after the finally clause.
Interrupt ==
    /\ mainPc = "loop"
    /\ mainPc' = "destroy_close"
    /\ destroyIter' = conns
    /\ exit_code' = "0"
    /\ UNCHANGED <<account, filters, conf, ctor, conns, joinWaited>>
    /\ UNCHANGED <<workerVars, collectVars>>

\* Ec2Conn.close, lines 106-108
Close(c, w) == [c EXCEPT ![w] = TRUE]

\* A destroy() without its first loop: no worker is closed before the
\* stop() of the first one.
DestroyCloseSkipped ==
    /\ mainPc = "destroy_close"
    /\ mainPc' = "destroy_stop"
    /\ destroyIter' = conns
    /\ UNCHANGED canceled
    /\ UNCHANGED <<pc, place, queue, instances, nputs, enqLog, after>>
    /\ UNCHANGED <<account, filters, conf, ctor, exit_code, conns, joinWaited>>
    /\ UNCHANGED collectVars

\* Ec2Collector.destroy, first loop, lines 244-245: conn.close() for the
\* next worker; after the last one the second loop starts.
DestroyClose ==
    /\ mainPc = "destroy_close"
    /\ IF destroyIter = << >>
       THEN /\ mainPc' = "destroy_stop"
            /\ destroyIter' = conns
            /\ UNCHANGED canceled
       ELSE /\ canceled' = Close(canceled, Head(destroyIter))
            /\ destroyIter' = Tail(destroyIter)
            /\ UNCHANGED mainPc
    /\ UNCHANGED <<pc, place, queue, instances, nputs, enqLog, after>>
    /\ UNCHANGED <<account, filters, conf, ctor, exit_code, conns, joinWaited>>
    /\ UNCHANGED collectVars

\* Ec2Collector.destroy, second loop, lines 246-248: conn.stop() for the
\* next worker sets the flag and starts self.join(3), lines 110-113; after
\* the last one self._conn = {} and destroy() returns.
DestroyStop ==
    /\ mainPc = "destroy_stop"
    /\ IF destroyIter = << >>
       THEN /\ mainPc' = "destroyed"
            /\ conns' = << >>
            /\ UNCHANGED <<canceled, joinWaited>>
       ELSE /\ canceled' = [canceled EXCEPT ![Head(destroyIter)] = TRUE]
            /\ joinWaited' = 0
            /\ mainPc' = "joining"
            /\ UNCHANGED conns
    /\ UNCHANGED <<pc, place, queue, instances, nputs, enqLog, after>>
    /\ UNCHANGED <<account, filters, conf, ctor, exit_code, destroyIter>>
    /\ UNCHANGED collectVars

\* self.join() without a timeout: over only when the thread has ended.
JoinOverNoTimeout(w, waited) == ~IsAlive(w)

\* Whether the pending join is over: the thread has ended or the timeout
\* has run out.
JoinOver(w, waited) == ~IsAlive(w) \/ waited >= JoinTimeout

\* Time passes while stop() waits in self.join(3).
Tick ==
    /\ mainPc = "joining"
    /\ ~JoinOver(Head(destroyIter), joinWaited)
    /\ joinWaited' = joinWaited + 1
    /\ UNCHANGED <<account, filters, conf, mainPc, ctor, exit_code, conns, destroyIter>>
    /\ UNCHANGED <<workerVars, collectVars>>

\* A stop() that lowers the flag again once join(3) has returned.
JoinReturnClearsFlag ==
    /\ mainPc = "joining"
    /\ JoinOver(Head(destroyIter), joinWaited)
    /\ mainPc' = "destroy_stop"
    /\ destroyIter' = Tail(destroyIter)
    /\ joinWaited' = 0
    /\ canceled' = [canceled EXCEPT ![Head(destroyIter)] = FALSE]
    /\ UNCHANGED <<account, filters, conf, ctor, exit_code, conns>>
    /\ UNCHANGED <<pc, place, queue, instances, nputs, enqLog, after>>
    /\ UNCHANGED collectVars

\* self.join(3) returns and so does stop(), line 113.
JoinReturn ==
    /\ mainPc = "joining"
    /\ JoinOver(Head(destroyIter), joinWaited)
    /\ mainPc' = "destroy_stop"
    /\ destroyIter' = Tail(destroyIter)
    /\ joinWaited' = 0
    /\ UNCHANGED <<account, filters, conf, ctor, exit_code, conns>>
    /\ UNCHANGED <<workerVars, collectVars>>

\* os._exit(exit_code), line 317: the process and all its threads are gone.
Exit ==
    /\ mainPc \in {"error", "destroyed"}
    /\ mainPc' = "exited"
    /\ UNCHANGED <<account, filters, conf, ctor, exit_code, conns, destroyIter, joinWaited>>
    /\ UNCHANGED <<workerVars, collectVars>>

(* --------------------------- specification ---------------------------- *)

Next ==
    \/ \E w \in Workers : WorkerStep(w)
    \/ CollectStart
    \/ CollectFor
    \/ CollectGet
    \/ CtorCloud
    \/ CtorStartConn
    \/ LoopExit
    \/ Interrupt
    \/ DestroyClose
    \/ DestroyStop
    \/ Tick
    \/ JoinReturn
    \/ Exit

Spec == Init /\ [][Next]_vars

\* The exporter left to serve scrapes: the operator never interrupts it, so
\* destroy() runs only once every worker thread has ended.
NextServe ==
    \/ \E w \in Workers : WorkerStep(w)
    \/ CollectStart
    \/ CollectFor
    \/ CollectGet
    \/ CtorCloud
    \/ CtorStartConn
    \/ LoopExit
    \/ DestroyClose
    \/ DestroyStop
    \/ JoinReturn
    \/ Exit

ServeSpec == Init /\ [][NextServe]_vars

\* The same for one worker, with an account whose instances give the worker
\* two different label sets.
InitQueue ==
    InitWith({RunningProd, StoppedProd, RunningUnnamed},
             { << [cloud |-> "aws", has_access |-> TRUE, access |-> OneRegion] >> })

QueueSpec == InitQueue /\ [][NextServe]_vars

\* The exporter being shut down while nothing scrapes it.  The main thread
\* is scheduled and time passes; a provider call need not ever return.
NextStop ==
    \/ \E w \in Workers : WorkerStep(w)
    \/ CtorCloud
    \/ CtorStartConn
    \/ LoopExit
    \/ Interrupt
    \/ DestroyClose
    \/ DestroyStop
    \/ Tick
    \/ JoinReturn
    \/ Exit

StopSpec ==
    /\ Init
    /\ [][NextStop]_vars
    /\ WF_vars(Tick)
    /\ WF_vars(JoinReturn)

\* One worker polling an account under each of the filter blocks.
InitFilter ==
    InitBase({RunningProd, StoppedProd, RunningUnnamed, RunningEnvUpper,
              RunningEnvNull, RunningEnvRunning, RunningTeamA, PendingTeamC,
              RunningZoneTag},
             { << [cloud |-> "aws", has_access |-> TRUE, access |-> OneRegion] >> },
             FilterConfs)

NextFilter ==
    \/ \E w \in Workers : WorkerStep(w)
    \/ CtorCloud
    \/ CtorStartConn

FilterSpec == InitFilter /\ [][NextFilter]_vars

(* ------------------------------ claims -------------------------------- *)

\* The label sets of the facts the current pass has drained.
DrainedKeys == { drained[i][2] : i \in DOMAIN drained }

\* How many facts with label set L the current pass has drained.
DrainedCount(L) == Cardinality({ i \in DOMAIN drained : drained[i][2] = L })

RECURSIVE SumValues(_)
SumValues(samples) ==
    IF samples = << >> THEN 0
    ELSE Head(samples)[2] + SumValues(Tail(samples))

\* A collect() pass has run to its end.
PassDone == colPc = "idle" /\ nscrapes > 0

\* Worker lifecycle state Running: started, not ended, not canceled.
Running(w) == IsAlive(w) /\ ~canceled[w]

\* C1: at the end of the first collect() pass, the family of every label
\* set L drained in the pass carries exactly one sample, with L's label
\* values and the number of drained facts with label set L as its value.
C1_OneSamplePerLabelSet ==
    (PassDone /\ nscrapes = 1) =>
        \A L \in DrainedKeys :
            metrics[L] = << <<LabelValues(L), DrainedCount(L)>> >>

\* C2: whenever a pass has emitted the family of a label set, the values of
\* the samples the family carries add up to the number of facts with that
\* label set drained in this pass: nothing of earlier passes is in it.
C2_OnlyThisPass ==
    \A i \in DOMAIN emitted :
        emitted[i].name = "ec2_number_instances" =>
            SumValues(metrics[emitted[i].key]) = DrainedCount(emitted[i].key)

\* C5: when the constructor raises a configuration error, no worker is in
\* state Running.
C5_ErrorBeforeAnyStart ==
    mainPc = "error" => \A w \in Workers : ~Running(w)

\* C7: once workers have ended with provider errors, and neither the
\* operator has interrupted the exporter nor the configuration was refused,
\* main() is still in its wait loop.
C7_ProviderErrorNeverEndsExporter ==
    ( /\ \E w \in Workers : pc[w] = "failed"
      /\ mainPc # "ctor"
      /\ exit_code \notin {"0", "1"} ) => mainPc = "loop"

\* C8: in every pass the first family emitted is the liveness gauge and it
\* carries exactly one sample, host identity with value 1.
C8_AliveOneSample ==
    nscrapes > 0 =>
        /\ emitted[1] = AliveFamily
        /\ alive_metric = << << <<Fqdn>>, 1 >> >>

\* C9: no family appears twice in the sequence one pass emits.
C9_EachFamilyOnce ==
    \A i, j \in DOMAIN emitted : i # j => emitted[i] # emitted[j]

\* C3: for every worker, what get() has returned so far followed by what is
\* still queued is exactly what the worker has enqueued, in its order: no
\* fact is lost, returned twice or overtaken.
C3_QueueFifo ==
    \A w \in Workers : deqLog[w] \o queue[w] = enqLog[w]

\* A worker has enqueued two different facts; one has been drained while
\* the other is still queued.
C3_Witness ==
    \E w \in Workers :
        /\ Len(enqLog[w]) = 2
        /\ enqLog[w][1] # enqLog[w][2]
        /\ Len(deqLog[w]) = 1
        /\ Len(queue[w]) = 1

\* The worker stop() is waiting for.
Joined == Head(destroyIter)

\* C4: a pending stop() has never waited longer than its timeout, and it
\* returns: from every state in which stop() waits for worker w, a state in
\* which it no longer does is reached, whatever the worker does.
C4_StopReturns ==
    /\ [](mainPc = "joining" => joinWaited <= JoinTimeout)
    /\ \A w \in Workers :
           (mainPc = "joining" /\ Joined = w)
               ~> ~(mainPc = "joining" /\ Joined = w)

\* stop() has returned for a worker that is still inside its fetch.
C4_Witness ==
    /\ mainPc = "destroy_stop"
    /\ Len(destroyIter) < Len(conns)
    /\ pc[conns[Len(conns) - Len(destroyIter)]] = "fetch"

\* C6: the step in which a worker ends with a provider error changes
\* nothing of any other worker, of main() or of a running collect() pass;
\* and while workers have ended that way, every other live worker can take
\* its next step and a running collect() pass can take its next turn.
C6_ErrorIsolated ==
    /\ [][ \A w \in Workers :
              (pc[w] # "failed" /\ pc'[w] = "failed") =>
                  /\ \A v \in Workers \ {w} :
                        /\ pc'[v] = pc[v]
                        /\ canceled'[v] = canceled[v]
                        /\ queue'[v] = queue[v]
                  /\ UNCHANGED <<mainPc, colPc, colIter, emitted>> ]_vars
    /\ [](\A w \in Workers :
            (pc[w] = "failed" /\ ProcessUp) =>
                /\ \A v \in Workers \ {w} : IsAlive(v) => ENABLED WorkerStep(v)
                /\ colPc = "drain" => ENABLED CollectGet)

\* The first worker ended with a provider error before it enqueued a fact;
\* a collect() pass has run to its end and returned facts of the second
\* worker, which is still alive.
C6_Witness ==
    /\ pc[1] = "failed"
    /\ enqLog[1] = << >>
    /\ PassDone
    /\ drained # << >>
    /\ IsAlive(2)

\* C10: a turn of a drain is never blocked, in particular not on an empty
\* queue; and a pass that has ended without draining a fact has emitted the
\* liveness gauge and nothing else.
C10_EmptyDrainNeverBlocks ==
    /\ (colPc = "drain" /\ ProcessUp) => ENABLED CollectGet
    /\ (PassDone /\ drained = << >>) => emitted = <<AliveFamily>>

\* A pass over two live workers that never enqueued anything has ended.
C10_Witness ==
    /\ PassDone
    /\ mainPc = "loop"
    /\ emitted = <<AliveFamily>>
    /\ \A w \in Workers : IsAlive(w) /\ enqLog[w] = << >>

(* ----------------------- filters and labels --------------------------- *)

\* Worker w runs the loop body for the instance at the head of its list.
BodyStep(w) == pc[w] = "body" /\ pc'[w] # "body"

\* How many facts the step adds to what worker w has enqueued.
Enqueued(w) == Len(enqLog'[w]) - Len(enqLog[w])

\* The instances the filter block fc asks for: the status is one of the
\* configured values (any status without a status filter), and every
\* configured tag name is, whatever its letter case, the name of a tag of
\* the instance whose value is one of the configured values.
Wanted(fc, instance) ==
    /\ fc.status.kind = "absent" \/ instance.state \in Range(fc.status.values)
    /\ \A t \in fc.tags :
          \E kv \in instance.tags :
             /\ Lower(kv[1]) = Lower(t[1])
             /\ kv[2] \in Range(t[2].values)

\* C11: the loop body enqueues exactly one fact for an instance whose status
\* is among the configured status values and whose tags hold every
\* configured tag name with one of its configured values, and no fact for
\* any other instance.
C11_FilterContract ==
    [][\A w \in Workers :
          BodyStep(w) =>
              Enqueued(w) = IF Wanted(filters, Head(instances[w])) THEN 1 ELSE 0]_vars

\* The tag names of instance differ from the configured ones in letter case
\* only, and the values satisfy the matchers.
CaseOnly(fc, instance) ==
    /\ fc.tags # {}
    /\ \A t \in fc.tags :
          \E kv \in instance.tags :
             /\ kv[1] # t[1]
             /\ Lower(kv[1]) = Lower(t[1])
             /\ kv[2] # None
             /\ Match(Compile(t[2]), kv[2])

\* C12: an instance whose tag names differ from the configured tag names in
\* letter case only, and whose values satisfy the matchers, passes the tag
\* filter: with an accepted status, the loop body enqueues its fact.
C12_TagNameCase ==
    [][\A w \in Workers :
          LET instance == Head(instances[w])
          IN  (/\ BodyStep(w)
               /\ Match(StatusFilter(filters), instance.state)
               /\ CaseOnly(filters, instance))
                  => Enqueued(w) = 1]_vars

\* C13: the label set of every fact a worker enqueues holds zone, region,
\* machine and ami, zone and region being the worker's own, holds every
\* instance tag whose value is not null, and holds no null value.
C13_LabelContract ==
    [][\A w \in Workers :
          (BodyStep(w) /\ Enqueued(w) = 1) =>
              LET instance == Head(instances[w])
                  labels == enqLog'[w][Len(enqLog'[w])][2]
              IN  /\ {"zone", "region", "machine", "ami"} \subseteq Keys(labels)
                  /\ <<"zone", place[w][1]>> \in labels
                  /\ <<"region", place[w][2]>> \in labels
                  /\ { kv \in instance.tags : kv[2] # None } \subseteq labels
                  /\ \A kv \in labels : kv[2] # None]_vars

(* --------------------------- cancellation ----------------------------- *)

\* The worker thread takes its next step and the provider call it is in, if
\* any, returns.
WorkerRuns(w) ==
    \/ Connect(w)
    \/ WhileCheck(w)
    \/ FetchCall(w)
    \/ FetchReturn(w)
    \/ ForCheck(w)
    \/ ForBody(w)
    \/ Sleep(w)

\* The exporter being shut down, up to the return of destroy(): the process
\* is still there, so the worker threads go on.
NextCancel ==
    \/ \E w \in Workers : WorkerStep(w)
    \/ CtorCloud
    \/ CtorStartConn
    \/ LoopExit
    \/ Interrupt
    \/ DestroyClose
    \/ DestroyStop
    \/ Tick
    \/ JoinReturn

\* One worker, which shares nothing with another one.
InitCancel ==
    InitWith({RunningProd, StoppedProd},
             { << [cloud |-> "aws", has_access |-> TRUE, access |-> OneRegion] >> })

\* The worker thread is scheduled and every provider call returns or
\* raises; nothing is assumed of the main thread.
CancelSpec ==
    /\ InitCancel
    /\ [][NextCancel]_vars
    /\ \A w \in Workers : WF_vars(WorkerRuns(w))

\* C14: once close() or stop() has set the flag of a worker whose thread is
\* running, the thread eventually ends, wherever in its loop the flag found
\* it.
C14_CanceledWorkerStops ==
    \A w \in Workers :
        (canceled[w] /\ IsAlive(w)) ~> ~IsAlive(w)

\* A worker canceled between the test of an instance and its put has
\* stopped while destroy() was still waiting for it.
C14_Witness ==
    /\ mainPc = "joining"
    /\ \E w \in Workers :
          canceled[w] /\ pc[w] = "stopped" /\ after[w] = <<1, 0>>

(* ----------------------------- lifecycle ------------------------------ *)

\* The lifecycle state of a worker: Created until start(), Stopped once
\* run() is left, otherwise Running or, with the flag set, Canceling.
Lifecycle(p, flag) ==
    IF p = "new" THEN "Created"
    ELSE IF p \in {"stopped", "failed"} THEN "Stopped"
    ELSE IF flag THEN "Canceling"
    ELSE "Running"

Rank(state) ==
    CASE state = "Created" -> 0
      [] state = "Running" -> 1
      [] state = "Canceling" -> 2
      [] state = "Stopped" -> 3

\* Created is left only by start(), which leaves the worker Running, and a
\* Stopped worker never runs or enqueues again.
StartAndEnd(w) ==
    LET before == Lifecycle(pc[w], canceled[w])
        after_step == Lifecycle(pc'[w], canceled'[w])
    IN  /\ Rank(before) <= Rank(after_step)
        /\ (before = "Created" /\ after_step # "Created") =>
               /\ after_step = "Running"
               /\ pc'[w] = "connect"
               /\ w = NextWorker
               /\ conns' = Append(conns, w)
        /\ before = "Stopped" =>
               /\ pc'[w] = pc[w]
               /\ enqLog'[w] = enqLog[w]
               /\ Len(queue'[w]) <= Len(queue[w])

ScrStart(t) ==
    /\ ProcessUp
    /\ ServerUp
    /\ scr[t].pc = "idle"
    /\ alive_metric' = Append(alive_metric, <<Fqdn, 1>>)
    /\ scr' = [scr EXCEPT ![t] =
                  [pc |-> IF conns = << >> THEN "done" ELSE "get",
                   iter |-> conns, fact |-> << >>]]
    /\ UNCHANGED <<colPc, colIter, metrics, emitted, drained, nscrapes, deqLog>>
    /\ UNCHANGED <<workerVars, mainVars>>

\* conn.get() in thread t, lines 232 and 98-104: Queue.Empty ends the drain
\* of this worker, else the oldest fact is taken.
ScrGet(t) ==
    /\ ProcessUp
    /\ scr[t].pc = "get"
    /\ LET w == Head(scr[t].iter)
       IN  IF queue[w] = << >>
           THEN /\ scr' = [scr EXCEPT ![t] =
                             [pc |-> IF Tail(@.iter) = << >> THEN "done" ELSE "get",
                              iter |-> Tail(@.iter), fact |-> << >>]]
                /\ UNCHANGED <<queue, deqLog>>
           ELSE LET got == get_nowait(queue[w])
                IN  /\ queue' = [queue EXCEPT ![w] = got.rest]
                    /\ deqLog' = [deqLog EXCEPT ![w] = Append(@, got.item)]
                    /\ scr' = [scr EXCEPT ![t].pc = "check",
                                          ![t].fact = got.item]
    /\ UNCHANGED <<colPc, colIter, alive_metric, metrics, emitted, drained, nscrapes>>
    /\ UNCHANGED <<pc, canceled, place, instances, nputs, enqLog, after>>
    /\ UNCHANGED mainVars

\* if frozen_tags not in self._metrics.keys(), line 234, in thread t
ScrCheck(t) ==
    /\ ProcessUp
    /\ scr[t].pc = "check"
    /\ scr' = [scr EXCEPT ![t].pc =
                  IF scr[t].fact[2] \notin DOMAIN metrics THEN "create" ELSE "add"]
    /\ UNCHANGED <<colPc, colIter, alive_metric, metrics, emitted, drained,
                   nscrapes, deqLog>>
    /\ UNCHANGED <<workerVars, mainVars>>

\* self._metrics[frozen_tags] = GaugeMetricFamily(...), lines 235-237, in
\* thread t: a family without samples is stored under the key.
ScrCreate(t) ==
    /\ ProcessUp
    /\ scr[t].pc = "create"
    /\ LET frozen_tags == scr[t].fact[2]
       IN  metrics' = [k \in DOMAIN metrics \cup {frozen_tags} |->
                          IF k = frozen_tags THEN << >> ELSE metrics[k]]
    /\ scr' = [scr EXCEPT ![t].pc = "add"]
    /\ UNCHANGED <<colPc, colIter, alive_metric, emitted, drained, nscrapes, deqLog>>
    /\ UNCHANGED <<workerVars, mainVars>>

\* self._metrics[frozen_tags].add_metric(...), line 239, and the yield of
\* line 240, in thread t.
ScrAdd(t) ==
    /\ ProcessUp
    /\ scr[t].pc = "add"
    /\ metrics' = AddMetric(metrics, scr[t].fact[2], scr[t].fact[1])
    /\ scr' = [scr EXCEPT ![t].pc = "get", ![t].fact = << >>]
    /\ UNCHANGED <<colPc, colIter, alive_metric, emitted, drained, nscrapes, deqLog>>
    /\ UNCHANGED <<workerVars, mainVars>>

\* One worker, and two threads of the HTTP server each running one
\* collect() pass.
NextConcurrent ==
    \/ \E w \in Workers : WorkerStep(w)
    \/ CtorCloud
    \/ CtorStartConn
    \/ \E t \in ScrapeThreads : ScrStart(t)
    \/ \E t \in ScrapeThreads : ScrGet(t)
    \/ \E t \in ScrapeThreads : ScrCheck(t)
    \/ \E t \in ScrapeThreads : ScrCreate(t)
    \/ \E t \in ScrapeThreads : ScrAdd(t)

InitConcurrent ==
    InitWith({RunningProd, StoppedProd},
             { << [cloud |-> "aws", has_access |-> TRUE, access |-> OneRegion] >> })

ConcurrentSpec == InitConcurrent /\ [][NextConcurrent]_vars

\* The facts with label set L that get() has returned.
Returned(L) ==
    { <<w, i>> \in Workers \X (1 .. MaxPuts) :
          i <= Len(deqLog[w]) /\ deqLog[w][i][2] = L }

\* The threads that hold a fact with label set L between its get() and its
\* add_metric.
Holding(L) ==
    { t \in ScrapeThreads :
          scr[t].pc \in {"check", "create", "add"} /\ scr[t].fact[2] = L }

\* C16: with two collect() passes running side by side no sample is lost:
\* every fact a pass has drained and added is a sample of the family
\* _metrics holds for its label set.
C16_NoSampleLost ==
    \A w \in Workers : \A i \in DOMAIN deqLog[w] :
        LET L == deqLog[w][i][2]
            samples == IF L \in DOMAIN metrics THEN Len(metrics[L]) ELSE 0
        IN  samples = Cardinality(Returned(L)) - Cardinality(Holding(L))

(* -------------------------- frame of collect -------------------------- *)

\* A step of a collect() pass.
CollectStep == CollectStart \/ CollectFor \/ CollectGet

\* C17: a step of a collect() pass leaves every worker's cancellation flag,
\* lifecycle position, zone, region and filters unchanged, and what the
\* worker has fetched and enqueued; a queue is either left alone or loses
\* its oldest fact.
C17_CollectFrame ==
    [][CollectStep =>
          /\ UNCHANGED <<pc, canceled, place, filters, instances, nputs, enqLog, after>>
          /\ \A w \in Workers :
                \/ queue'[w] = queue[w]
                \/ queue[w] # << >> /\ queue'[w] = Tail(queue[w])]_vars

\* A pass has drained a fact of a worker that is still running, not
\* canceled.
C17_Witness ==
    /\ PassDone
    /\ drained # << >>
    /\ \E w \in Workers : Running(w) /\ deqLog[w] # << >>

(* ------------------------- after cancellation ------------------------- *)

\* The longest instance list of a fetch in the shutdown with longer lists.
MaxBurst == 2

\* Ec2Conn.run with fetches that return up to MaxBurst instances.
WorkerBurst(w) ==
    \/ Connect(w)
    \/ ProviderError(w)
    \/ WhileCheck(w)
    \/ FetchCall(w)
    \/ FetchReturnFrom(w, SeqsUpTo(account, MaxBurst))
    \/ ForCheck(w)
    \/ ForBody(w)
    \/ Sleep(w)

\* The exporter being shut down while its workers walk lists of several
\* instances.
NextBurst ==
    \/ \E w \in Workers : WorkerBurst(w)
    \/ CtorCloud
    \/ CtorStartConn
    \/ LoopExit
    \/ Interrupt
    \/ DestroyClose
    \/ DestroyStop
    \/ Tick
    \/ JoinReturn
    \/ Exit

BurstSpec == Init /\ [][NextBurst]_vars

\* C18: with its flag set, a worker enqueues at most one more fact and
\* starts at most one more fetch.
C18_AtMostOneMore ==
    \A w \in Workers : after[w][1] <= 1 /\ after[w][2] <= 1

\* One worker has enqueued a fact with its flag set and stopped with an
\* instance of its list left; one has started a fetch with its flag set.
C18_Witness ==
    /\ \E w \in Workers :
          after[w][1] = 1 /\ pc[w] = "stopped" /\ instances[w] # << >>
    /\ \E w \in Workers : after[w][2] = 1

DestroySpec ==
    /\ Init
    /\ [][NextStop]_vars
    /\ WF_vars(DestroyClose)
    /\ WF_vars(DestroyStop)
    /\ WF_vars(Tick)
    /\ WF_vars(JoinReturn)

\* The workers destroy() has still to stop() are the last ones of _conn.
StillToStop ==
    \E n \in 0 .. Len(conns) :
        destroyIter = SubSeq(conns, n + 1, Len(conns))

\* C20, the order: whenever destroy() waits in a join(3), the flag of every
\* worker of the collector is set; the wait is for one of the workers not
\* yet stopped, each being waited for once, and lasts at most the timeout.
C20_CloseBeforeWait ==
    mainPc = "joining" =>
        /\ \A i \in DOMAIN conns : canceled[conns[i]]
        /\ StillToStop
        /\ destroyIter # << >>
        /\ joinWaited <= JoinTimeout

\* C20, the return: destroy() always returns, even if a worker never stops.
C20_DestroyReturns == (mainPc = "destroy_close") ~> (mainPc = "destroyed")

\* C20: destroy() sets the flag of every worker before it first waits, and
\* returns after at most one bounded wait per worker.
C20_Destroy == []C20_CloseBeforeWait /\ C20_DestroyReturns

\* destroy() has returned after the join of a worker ran into its timeout:
\* a canceled worker is still in its provider call.
C20_Witness ==
    /\ mainPc = "destroyed"
    /\ \E w \in Workers : canceled[w] /\ pc[w] = "fetch"
    /\ \E w \in Workers : canceled[w] /\ pc[w] = "stopped"

====
